---- MODULE Spec2Model ----
(***************************************************************************)
(* Model of chunkfs: the file layer (src/src/file_layer.rs), the key-value *)
(* stores (src/src/system/database.rs: HashMap and DiskDatabase), the      *)
(* fixed-size chunker (src/src/chunkers/fixed_size.rs) and the file-system *)
(* facade that ties them together.                                         *)
(***************************************************************************)
EXTENDS Integers, Sequences, FiniteSets, TLC

VARIABLES
    files,      \* FileLayer.files: file name -> sequence of FileSpan
    lens,       \* history: file name -> the Span.length given with each appended span
    handles,    \* the FileHandle values the caller holds: slot -> FileHandle
    hist,       \* history per handle: the results of its read calls, whether it wrote
    mem,          \* the in-memory store, a HashMap: key -> value
    database_map, \* DiskDatabase.database_map: key -> DataInfo
    used_blocks,  \* DiskDatabase.used_blocks
    device,       \* the bytes of the file behind DiskDatabase.device
    total_size,   \* DiskDatabase.total_size
    block_size,   \* DiskDatabase.block_size
    stored,       \* history: key -> the value last stored under it in the DiskDatabase
    tails,        \* FileSystem: handle -> the bytes the chunker has not emitted yet
    written,      \* history: file name -> the bytes given to write_to_file, in call order
    ret         \* the result of the last call

flVars == <<files, lens, handles, hist>>
diskVars == <<database_map, used_blocks, device, total_size, block_size, stored>>
dbVars == <<mem, diskVars>>
fsVars == <<tails, written>>
vars == <<flVars, dbVars, fsVars, ret>>

(***************************************************************************)
(* Program constants.                                                      *)
(***************************************************************************)
KB == 1024
MB == 1024 * KB
SEG_SIZE == MB
\* the block size DiskDatabase::init_on_regular_file sets
BLOCK_SIZE == 512

(***************************************************************************)
(* Bounds of the model.                                                    *)
(***************************************************************************)
MaxSpans == 2       \* spans appended over all files
MaxBatch == 2       \* spans given to one write call
MaxReads == 2       \* read calls recorded per handle

Names == {"a", "b"}
\* The spans given to write: the hasher's len(hash) makes the length a function
\* of the hash.  Half a segment divides SEG_SIZE, three quarters does not, and
\* a whole segment fills one read on its own.
Spans == {[hash |-> "h1", length |-> SEG_SIZE \div 2],
          [hash |-> "h2", length |-> 3 * (SEG_SIZE \div 4)],
          [hash |-> "h3", length |-> SEG_SIZE]}
\* the slots in which the caller keeps the handles it obtains
HandleIds == {1, 2}

(***************************************************************************)
(* Helpers over sequences.                                                 *)
(***************************************************************************)
Range(s) == {s[i] : i \in 1..Len(s)}

RECURSIVE Flatten(_)
Flatten(ss) == IF ss = <<>> THEN <<>> ELSE Head(ss) \o Flatten(Tail(ss))

RECURSIVE SumAt(_, _)
\* sum of s[i] over the indexes i listed in idx
SumAt(s, idx) == IF idx = <<>> THEN 0 ELSE s[Head(idx)] + SumAt(s, Tail(idx))

RECURSIVE SeqsUpTo(_, _)
\* the non-empty sequences over S of length at most n
SeqsUpTo(S, n) ==
    IF n = 0 THEN {}
    ELSE {<<x>> : x \in S} \cup
         {<<x>> \o t : x \in S, t \in SeqsUpTo(S, n - 1)}

TotalSpans == LET RECURSIVE Sum(_)
                  Sum(D) == IF D = {} THEN 0
                            ELSE LET n == CHOOSE n \in D : TRUE
                                 IN Len(files[n]) + Sum(D \ {n})
              IN Sum(DOMAIN files)

(***************************************************************************)
(* usize arithmetic.  A usize value is kept as the representative of its   *)
(* residue modulo 2^64 that lies in (-2^63, 2^63): a negative              *)
(* representative d stands for the wrapped value 2^64 + d, which is larger *)
(* than every non-negative representative.                                 *)
(***************************************************************************)
USizeLt(a, b) == IF a < 0 THEN (b < 0 /\ a < b) ELSE (b < 0 \/ a < b)

(***************************************************************************)
(* File layer: pure parts.                                                 *)
(***************************************************************************)
FileSpan(hash, offset) == [hash |-> hash, offset |-> offset]

Span(hash, length) == [hash |-> hash, length |-> length]

\* FileHandle::new
FileHandle(name) == [file_name |-> name, offset |-> 0]

\* FileLayer::create without the contains_key check: the entry is overwritten
create_overwrite(fl, name) ==
    [files |-> [n \in DOMAIN fl \cup {name} |-> IF n = name THEN <<>> ELSE fl[n]],
     err |-> "Ok", handle |-> FileHandle(name)]

\* FileLayer::create
create(fl, name) ==
    IF name \in DOMAIN fl
    THEN [files |-> fl, err |-> "AlreadyExists"]
    ELSE [files |-> fl @@ (name :> <<>>), err |-> "Ok", handle |-> FileHandle(name)]

\* FileLayer::open that returns a handle whether or not the file exists
open_always(fl, name) == <<[file_name |-> name, offset |-> 0]>>

\* FileLayer::open: Option<FileHandle> as a sequence of zero or one handle
open(fl, name) == IF name \in DOMAIN fl THEN <<FileHandle(name)>> ELSE <<>>

\* FileLayer::find_file (the unwrap never fails: files are never removed)
find_file(fl, handle) == fl[handle.file_name]

\* FileLayer::read_complete that starts at the handle's offset
read_complete_from_offset(fl, handle) ==
    LET file == find_file(fl, handle)
        first == CHOOSE i \in 1..(Len(file) + 1) :
                     /\ \A j \in 1..(i - 1) : file[j].offset < handle.offset
                     /\ (i <= Len(file) => file[i].offset >= handle.offset)
    IN [i \in 1..(Len(file) - first + 1) |-> file[first + i - 1].hash]

\* FileLayer::read_complete
read_complete(fl, handle) ==
    LET file == find_file(fl, handle)
    IN [i \in 1..Len(file) |-> file[i].hash]

\* the lengths of a list of spans, and the sum of the first n of them
Lengths(spans) == [i \in 1..Len(spans) |-> spans[i].length]
SumFirst(spans, n) == SumAt(Lengths(spans), [j \in 1..n |-> j])

\* FileLayer::write that records each offset after advancing the handle
write_offset_after(file_spans, offset, spans) ==
    [spans |-> file_spans \o
                   [i \in 1..Len(spans) |->
                       FileSpan(spans[i].hash, offset + SumFirst(spans, i))],
     offset |-> offset + SumFirst(spans, Len(spans))]

\* FileLayer::write that replaces the spans of the file
write_replacing(file_spans, offset, spans) ==
    [spans |-> [i \in 1..Len(spans) |->
                   FileSpan(spans[i].hash, offset + SumFirst(spans, i - 1))],
     offset |-> offset + SumFirst(spans, Len(spans))]

RECURSIVE write(_, _, _)
\* FileLayer::write: the loop over spans; returns the file's spans and the
\* handle's offset after it
write(file_spans, offset, spans) ==
    IF spans = <<>>
    THEN [spans |-> file_spans, offset |-> offset]
    ELSE write(Append(file_spans, FileSpan(Head(spans).hash, offset)),
               offset + Head(spans).length,
               Tail(spans))

RECURSIVE skip_while(_, _, _)
\* .skip_while(|span| span.offset < handle.offset): the first index not skipped
skip_while(file_spans, offset, i) ==
    IF i <= Len(file_spans) /\ file_spans[i].offset < offset
    THEN skip_while(file_spans, offset, i + 1)
    ELSE i

RECURSIVE take_while(_, _, _, _, _)
\* .take_while(..): the closure runs on every span up to and including the
\* first one it rejects.  checks: the build panics on arithmetic overflow
\* (debug profile); otherwise the subtraction wraps (release profile).
take_while(file_spans, i, bytes_read, last_offset, checks) ==
    IF i > Len(file_spans)
    THEN [next |-> i, bytes_read |-> bytes_read, panic |-> FALSE]
    ELSE LET d == file_spans[i].offset - last_offset
             br == bytes_read + d
         IN IF d < 0 /\ checks
            THEN [next |-> i, bytes_read |-> bytes_read, panic |-> TRUE]
            ELSE IF USizeLt(br, SEG_SIZE)
                 THEN take_while(file_spans, i + 1, br, file_spans[i].offset, checks)
                 ELSE [next |-> i, bytes_read |-> br, panic |-> FALSE]

\* FileLayer::read on the spans of the handle's file
read(file_spans, offset, checks) ==
    LET first == skip_while(file_spans, offset, 1)
        t == take_while(file_spans, first, 0, offset, checks)
        idx == [k \in 1..(t.next - first) |-> first + k - 1]
    IN [idx |-> idx,
        hashes |-> [k \in 1..Len(idx) |-> file_spans[idx[k]].hash],
        offset |-> IF t.panic THEN offset ELSE offset + t.bytes_read,
        panic |-> t.panic]

(***************************************************************************)
(* File layer: the calls.                                                  *)
(***************************************************************************)
\* handle.offset = offset through the caller's &mut FileHandle, kept in one
\* cursor per file name
set_offset_shared(hs, h, offset) ==
    [g \in DOMAIN hs |->
        IF hs[g].file_name = hs[h].file_name
        THEN [hs[g] EXCEPT !.offset = offset] ELSE hs[g]]

\* handle.offset = offset through the caller's &mut FileHandle
set_offset(hs, h, offset) == [hs EXCEPT ![h].offset = offset]

FreeSlot == CHOOSE h \in HandleIds \ DOMAIN handles :
                \A g \in HandleIds \ DOMAIN handles : h <= g

NewHist == [reads |-> <<>>, wrote |-> FALSE]

Create(name) ==
    LET r == create(files, name)
    IN /\ files' = r.files
       /\ IF r.err = "Ok"
          THEN /\ HandleIds \ DOMAIN handles # {}
               /\ lens' = lens @@ (name :> <<>>)
               /\ handles' = handles @@ (FreeSlot :> r.handle)
               /\ hist' = hist @@ (FreeSlot :> NewHist)
               /\ ret' = [op |-> "create", name |-> name, err |-> r.err,
                          handle |-> r.handle]
          ELSE /\ UNCHANGED <<lens, handles, hist>>
               /\ ret' = [op |-> "create", name |-> name, err |-> r.err]
       /\ UNCHANGED <<dbVars, fsVars>>

Open(name) ==
    LET r == open(files, name)
    IN /\ IF r # <<>>
          THEN /\ HandleIds \ DOMAIN handles # {}
               /\ handles' = handles @@ (FreeSlot :> r[1])
               /\ hist' = hist @@ (FreeSlot :> NewHist)
          ELSE UNCHANGED <<handles, hist>>
       /\ ret' = [op |-> "open", name |-> name, handle |-> r]
       /\ UNCHANGED <<files, lens, dbVars, fsVars>>

\* FileLayer::write, while the files hold at most cap spans together
WriteUpTo(h, spans, cap) ==
    /\ h \in DOMAIN handles
    /\ TotalSpans + Len(spans) <= cap
    /\ LET name == handles[h].file_name
           r == write(files[name], handles[h].offset, spans)
       IN /\ files' = [files EXCEPT ![name] = r.spans]
          /\ lens' = [lens EXCEPT ![name] =
                         @ \o [i \in 1..Len(spans) |-> spans[i].length]]
          /\ handles' = set_offset(handles, h, r.offset)
          /\ hist' = [hist EXCEPT ![h].wrote = TRUE]
          /\ ret' = [op |-> "write", h |-> h, name |-> name, spans |-> spans]
    /\ UNCHANGED <<dbVars, fsVars>>

Write(h, spans) == WriteUpTo(h, spans, MaxSpans)

Read(h) ==
    /\ h \in DOMAIN handles
    /\ Len(hist[h].reads) < MaxReads
    /\ \E checks \in BOOLEAN :
         LET name == handles[h].file_name
             r == read(find_file(files, handles[h]), handles[h].offset, checks)
         IN /\ handles' = set_offset(handles, h, r.offset)
            /\ hist' = [hist EXCEPT ![h].reads =
                           IF r.panic THEN @ ELSE Append(@, r.idx)]
            /\ ret' = [op |-> "read", h |-> h, name |-> name, idx |-> r.idx,
                       hashes |-> r.hashes, panic |-> r.panic]
    /\ UNCHANGED <<files, lens, dbVars, fsVars>>

ReadComplete(h) ==
    /\ h \in DOMAIN handles
    /\ ret' = [op |-> "read_complete", h |-> h,
               hashes |-> read_complete(files, handles[h])]
    /\ UNCHANGED <<flVars, dbVars, fsVars>>

\* FileLayer::default()
NewFileLayer ==
    /\ files = <<>>
    /\ lens = <<>>
    /\ handles = <<>>
    /\ hist = <<>>

\* no file system is in use
NoFileSystem ==
    /\ tails = <<>>
    /\ written = <<>>

\* no store is in use
NoStores ==
    /\ mem = <<>>
    /\ database_map = <<>>
    /\ used_blocks = 0
    /\ device = <<>>
    /\ total_size = 0
    /\ block_size = BLOCK_SIZE
    /\ stored = <<>>

InitFL ==
    /\ NewFileLayer
    /\ NoStores
    /\ NoFileSystem
    /\ ret = [op |-> "new"]

NextFL ==
    \/ \E name \in Names : Create(name)
    \/ \E name \in Names : Open(name)
    \/ \E h \in HandleIds :
         \E spans \in SeqsUpTo(Spans, MaxBatch) : Write(h, spans)
    \/ \E h \in HandleIds : Read(h)
    \/ \E h \in HandleIds : ReadComplete(h)

SpecFL == InitFL /\ [][NextFL]_vars

(***************************************************************************)
(* Claims about the file layer (checked under SpecFL).                     *)
(***************************************************************************)
\* a handle that has only been read from: opened at offset 0, never written through
Reader(h) == h \in DOMAIN handles /\ ~hist[h].wrote

\* the indexes of the spans the read calls of handle h have returned, in call order
Returned(h) == Flatten(hist[h].reads)

\* C2: successive read calls on a handle opened at offset 0 return the spans of
\* the file in file order, none skipped and none returned twice (the indexes
\* returned so far are 1, 2, .., k), and when a read call returns the empty
\* list the calls before it have returned every span of the file, so that the
\* concatenation equals what read_complete returns.
BlockRoundTrip ==
    \A h \in DOMAIN handles :
        Reader(h) =>
            /\ \A i \in 1..Len(Returned(h)) : Returned(h)[i] = i
            /\ (ret.op = "read" /\ ret.h = h /\ ~ret.panic /\ ret.hashes = <<>>)
                   => Len(Returned(h)) = Len(files[handles[h].file_name])

\* C3: once the read calls on a handle have returned every span of its file, a
\* further read call on it returns the empty list and leaves the offset as it is.
ReadAtEOF ==
    [][\A h \in DOMAIN handles :
          (/\ ret'.op = "read"
           /\ ret'.h = h
           /\ Reader(h)
           /\ Range(Returned(h)) = 1..Len(files[handles[h].file_name]))
          => (/\ ~ret'.panic
              /\ ret'.hashes = <<>>
              /\ handles'[h].offset = handles[h].offset)]_vars

\* C4: the lengths of the spans whose hashes one read call returns sum to at
\* most SEG_SIZE.
BlockSizeBound ==
    (ret.op = "read" /\ ~ret.panic) => SumAt(lens[ret.name], ret.idx) <= SEG_SIZE

\* C5: a read call advances the offset of its handle by exactly the sum of the
\* lengths of the spans whose hashes it returns.
CursorAccounting ==
    [][\A h \in DOMAIN handles :
          (ret'.op = "read" /\ ret'.h = h /\ ~ret'.panic)
          => handles'[h].offset =
                 handles[h].offset + SumAt(lens[ret'.name], ret'.idx)]_vars

\* C8: create(name) succeeds exactly when no file of that name exists; on
\* success the file is added with no span, the other files are as before and
\* the handle returned is at offset 0; otherwise it returns AlreadyExists and
\* the file layer is as before, the spans of the existing file included.
CreateContract ==
    [][ret'.op = "create" =>
          LET name == ret'.name
          IN /\ (ret'.err = "Ok") <=> (name \notin DOMAIN files)
             /\ name \notin DOMAIN files =>
                    /\ DOMAIN files' = DOMAIN files \cup {name}
                    /\ files'[name] = <<>>
                    /\ \A n \in DOMAIN files : files'[n] = files[n]
                    /\ ret'.handle = [file_name |-> name, offset |-> 0]
             /\ name \in DOMAIN files =>
                    /\ ret'.err = "AlreadyExists"
                    /\ files' = files
                    /\ handles' = handles]_vars

\* C8 witness: create has just failed on a file that holds spans, while another
\* file exists
CreateRefused ==
    /\ ret.op = "create"
    /\ ret.err = "AlreadyExists"
    /\ files[ret.name] # <<>>
    /\ DOMAIN files = Names

\* the only handle through which its file has been written, never read from
SoleWriter(h) ==
    /\ h \in DOMAIN handles
    /\ hist[h].wrote
    /\ hist[h].reads = <<>>
    /\ \A g \in DOMAIN handles \ {h} :
          handles[g].file_name = handles[h].file_name => ~hist[g].wrote

\* after writes through one handle only, the handle's offset and the sum of
\* the span lengths of the file are both the number of bytes written
SoleWriterAtEnd ==
    \A h \in DOMAIN handles :
        SoleWriter(h) =>
            LET lengths == lens[handles[h].file_name]
            IN handles[h].offset = SumAt(lengths, [j \in 1..Len(lengths) |-> j])

\* C15: write(handle, spans) appends one FileSpan per span, in the given
\* order, each with the handle's offset at the moment it is appended, and
\* advances the handle's offset by the length of each span; after writes
\* through one handle only, the handle's offset and the span lengths of the
\* file both sum to the bytes written.
WriteAccounting ==
    [][/\ ret'.op = "write" =>
             LET h == ret'.h
                 name == ret'.name
                 spans == ret'.spans
                 old == Len(files[name])
             IN /\ Len(files'[name]) = old + Len(spans)
                /\ SubSeq(files'[name], 1, old) = files[name]
                /\ \A i \in 1..Len(spans) :
                      files'[name][old + i] =
                          FileSpan(spans[i].hash,
                                   handles[h].offset + SumFirst(spans, i - 1))
                /\ handles'[h].offset =
                       handles[h].offset + SumFirst(spans, Len(spans))
       /\ SoleWriterAtEnd']_vars

\* C15 witness: a second write through the only writer of a file
SecondWriteOfSoleWriter ==
    /\ ret.op = "write"
    /\ SoleWriter(ret.h)
    /\ Len(files[ret.name]) > Len(ret.spans)
    /\ handles[ret.h].offset > 0

\* C16: in every file the offsets of the spans are non-decreasing and each
\* offset is the sum of the lengths of the spans before it.
SpanOffsetsTile ==
    \A name \in DOMAIN files :
        \A i \in 1..Len(files[name]) :
            /\ files[name][i].offset = SumAt(lens[name], [j \in 1..(i - 1) |-> j])
            /\ (i > 1 => files[name][i - 1].offset <= files[name][i].offset)

\* C17: read_complete returns the hashes of all spans of the file in append
\* order, whatever the handle's offset, and leaves the handles and the files
\* as they were.
ReadCompletePure ==
    [][ret'.op = "read_complete" =>
          LET file == files[handles[ret'.h].file_name]
          IN /\ ret'.hashes = [i \in 1..Len(file) |-> file[i].hash]
             /\ handles' = handles
             /\ files' = files]_vars

\* C17 witness: read_complete through a handle that is not at offset 0 has
\* returned two hashes
ReadCompleteBehindOffset ==
    /\ ret.op = "read_complete"
    /\ handles[ret.h].offset > 0
    /\ Len(ret.hashes) = 2

\* C18: across every step each file stays present and its span list before
\* the step is a prefix of its span list after it; only write extends one.
AppendOnly ==
    [][\A name \in DOMAIN files :
          /\ name \in DOMAIN files'
          /\ Len(files[name]) <= Len(files'[name])
          /\ SubSeq(files'[name], 1, Len(files[name])) = files[name]
          /\ (files'[name] # files[name] => ret'.op = "write")]_vars

\* C18 witness: a write has extended a file that held spans, while another
\* file exists
WriteBehindSpans ==
    /\ ret.op = "write"
    /\ Len(files[ret.name]) > Len(ret.spans)
    /\ DOMAIN files = Names

\* C19: a write, read or read_complete through one handle leaves every other
\* handle as it was, also one on the same file, and what read returns is
\* determined by the handle's offset and the spans of the file.
IndependentCursors ==
    [][ret'.op \in {"write", "read", "read_complete"} =>
          /\ \A g \in DOMAIN handles \ {ret'.h} : handles'[g] = handles[g]
          /\ ret'.op = "read" =>
                \E checks \in BOOLEAN :
                    LET r == read(files[ret'.name], handles[ret'.h].offset, checks)
                    IN ret'.hashes = r.hashes /\ ret'.panic = r.panic]_vars

\* C19 witness: a call through one handle has moved it away from another
\* handle on the same file
CursorsApart ==
    /\ ret.op \in {"write", "read"}
    /\ \E g \in DOMAIN handles \ {ret.h} :
          /\ handles[g].file_name = handles[ret.h].file_name
          /\ handles[g].offset # handles[ret.h].offset

\* C20: open(name) returns a handle at offset 0 when the file exists, whatever
\* has been written to it, returns nothing when it does not, and leaves the
\* files as they were.
OpenContract ==
    [][ret'.op = "open" =>
          /\ ret'.name \in DOMAIN files =>
                 ret'.handle = <<[file_name |-> ret'.name, offset |-> 0]>>
          /\ ret'.name \notin DOMAIN files => ret'.handle = <<>>
          /\ files' = files
          /\ \A g \in DOMAIN handles : handles'[g] = handles[g]]_vars

\* C20 witness: open has returned a handle on a file that holds spans, while
\* the other file does not exist
OpenedWrittenFile ==
    /\ ret.op = "open"
    /\ ret.handle # <<>>
    /\ files[ret.name] # <<>>
    /\ DOMAIN files # Names

(***************************************************************************)
(* One file written span by span through two handles, one span more than   *)
(* under SpecFL, and read.                                                 *)
(***************************************************************************)
TheFile == CHOOSE name \in Names : TRUE

NextOneFile ==
    \/ Create(TheFile)
    \/ Open(TheFile)
    \/ \E h \in HandleIds, span \in Spans : WriteUpTo(h, <<span>>, MaxSpans + 1)
    \/ \E h \in HandleIds : Read(h)

SpecOneFile == InitFL /\ [][NextOneFile]_vars

\* C26: in no read call is a subtraction span.offset - last_offset negative:
\* the build that checks arithmetic would not panic on it.
NoUnderflowInRead ==
    [][ret'.op = "read" =>
          ~read(files[ret'.name], handles[ret'.h].offset, TRUE).panic]_vars

(***************************************************************************)
(* Key-value stores: inputs.                                               *)
(***************************************************************************)
MaxBlocks == 3      \* blocks of the larger backing file
SmallLen == 10      \* length of the short value
BigLen == 600       \* length of the long value

Keys == {"k1", "k2"}

\* vec![b; n]
Fill(b, n) == [i \in 1..n |-> b]

\* a short value, a long one, and one whose encoding (three bytes of length,
\* then the value) fills one block exactly
Values == {Fill(1, SmallLen), Fill(2, BigLen), Fill(3, BLOCK_SIZE - 3)}

\* a multiple of the block size, and a size that is not one: the size at which
\* the encoding of the long value (three bytes of length, then the value) ends
\* exactly at the end of the backing file
TotalSizes == {BLOCK_SIZE * MaxBlocks, 3 + BigLen}

\* how the device calls of one write end: all succeed, seek fails, or
\* write_all fails part-way (after the first block of a longer buffer, before
\* any byte of a buffer of one block)
IoOutcomes == {"ok", "seek", "short"}

(***************************************************************************)
(* In-memory store: impl Database for HashMap.                             *)
(***************************************************************************)
\* try_insert with the test inverted: stores only over a key that is present
hm_try_insert_inverted(m, key, value) ==
    IF key \in DOMAIN m THEN [m EXCEPT ![key] = value] ELSE m

\* HashMap::try_insert: self.entry(key).or_insert(value)
hm_try_insert(m, key, value) ==
    IF key \in DOMAIN m THEN m ELSE m @@ (key :> value)

\* HashMap::insert
hm_insert(m, key, value) ==
    [k \in DOMAIN m \cup {key} |-> IF k = key THEN value ELSE m[k]]

\* HashMap::get
hm_get(m, key) ==
    IF key \in DOMAIN m THEN [err |-> "Ok", value |-> m[key]]
    ELSE [err |-> "NotFound"]

\* HashMap::contains
hm_contains(m, key) == key \in DOMAIN m

(***************************************************************************)
(* bincode, config::standard(): a Vec<u8> is its length as a varint (one   *)
(* byte below 251; the marker 251 and a little-endian u16 below 65536)     *)
(* followed by its bytes.                                                  *)
(***************************************************************************)
encode_to_vec(value) ==
    LET n == Len(value)
    IN IF n < 251 THEN <<n>> \o value
       ELSE <<251, n % 256, n \div 256>> \o value

decode_from_slice(data) ==
    IF data = <<>> THEN [err |-> "InvalidData"]
    ELSE LET hdr == IF data[1] < 251 THEN 1 ELSE 3
         IN IF data[1] > 251 \/ Len(data) < hdr THEN [err |-> "InvalidData"]
            ELSE LET n == IF hdr = 1 THEN data[1] ELSE data[2] + 256 * data[3]
                 IN IF Len(data) < hdr + n THEN [err |-> "InvalidData"]
                    ELSE [err |-> "Ok", value |-> SubSeq(data, hdr + 1, hdr + n)]

(***************************************************************************)
(* DiskDatabase.                                                           *)
(***************************************************************************)
div_ceil(a, b) == (a + b - 1) \div b

\* vec![0; n], cut from one run of zeros as long as the largest backing file
ZeroRun == [i \in 1..(BLOCK_SIZE * (MaxBlocks + 1)) |-> 0]
Zeros(n) == SubSeq(ZeroRun, 1, n)

DataInfo(start_block, data_length) ==
    [start_block |-> start_block, data_length |-> data_length]

\* DiskDatabase::padding_to_multiple_block_size
padding_to_multiple_block_size(bs, length) ==
    IF length % bs = 0 THEN 0
    ELSE LET blocks_number == div_ceil(length, bs)
         IN blocks_number * bs - length

\* seek(SeekFrom::Start(off)) and write_all(bytes) on a regular file: the file
\* grows when the bytes end beyond its end
WriteAt(dev, off, bytes) ==
    SubSeq(dev, 1, off) \o bytes \o SubSeq(dev, off + Len(bytes) + 1, Len(dev))

\* read_at(&mut data, off) into a zeroed buffer of n bytes: the bytes beyond
\* the end of the file stay zero
ReadAt(dev, off, n) ==
    LET have == IF Len(dev) - off < n THEN Len(dev) - off ELSE n
    IN SubSeq(dev, off + 1, off + have) \o Zeros(n - have)

\* the DiskDatabase as a value
DiskState(map, used, dev, total, bs) ==
    [database_map |-> map, used_blocks |-> used, device |-> dev,
     total_size |-> total, block_size |-> bs]

\* DiskDatabase::write with used_blocks advanced by one block, whatever the length
db_write_one_block(db, value, io) ==
    LET encoded == encode_to_vec(value)
        data_length == Len(encoded)
        padding_size == padding_to_multiple_block_size(db.block_size, data_length)
        padded == encoded \o Zeros(padding_size)
        off == db.used_blocks * db.block_size
    IN IF off + data_length >= db.total_size
       THEN [err |-> "OutOfMemory", db |-> db]
       ELSE IF io = "seek"
       THEN [err |-> "Io", db |-> db]
       ELSE IF io = "short"
       THEN [err |-> "Io",
             db |-> [db EXCEPT !.device =
                        IF Len(padded) > db.block_size
                        THEN WriteAt(@, off, SubSeq(padded, 1, db.block_size))
                        ELSE @]]
       ELSE [err |-> "Ok",
             data_info |-> DataInfo(db.used_blocks, data_length),
             db |-> [db EXCEPT !.device = WriteAt(@, off, padded),
                               !.used_blocks = @ + 1]]

\* DiskDatabase::write without the capacity test
db_write_unchecked(db, value, io) ==
    LET encoded == encode_to_vec(value)
        data_length == Len(encoded)
        blocks_number == div_ceil(data_length, db.block_size)
        padding_size == padding_to_multiple_block_size(db.block_size, data_length)
        padded == encoded \o Zeros(padding_size)
        off == db.used_blocks * db.block_size
    IN IF io # "ok"
       THEN [err |-> "Io", db |-> db]
       ELSE [err |-> "Ok",
             data_info |-> DataInfo(db.used_blocks, data_length),
             db |-> [db EXCEPT !.device = WriteAt(@, off, padded),
                               !.used_blocks = @ + blocks_number]]

\* DiskDatabase::write with used_blocks advanced by the full blocks only
db_write_full_blocks(db, value, io) ==
    LET encoded == encode_to_vec(value)
        data_length == Len(encoded)
        padding_size == padding_to_multiple_block_size(db.block_size, data_length)
        padded == encoded \o Zeros(padding_size)
        off == db.used_blocks * db.block_size
    IN IF off + data_length >= db.total_size
       THEN [err |-> "OutOfMemory", db |-> db]
       ELSE IF io # "ok"
       THEN [err |-> "Io", db |-> db]
       ELSE [err |-> "Ok",
             data_info |-> DataInfo(db.used_blocks, data_length),
             db |-> [db EXCEPT !.device = WriteAt(@, off, padded),
                               !.used_blocks = @ + data_length \div db.block_size]]

\* DiskDatabase::write with used_blocks advanced before the device calls
db_write_counts_first(db, value, io) ==
    LET encoded == encode_to_vec(value)
        data_length == Len(encoded)
        blocks_number == div_ceil(data_length, db.block_size)
        padding_size == padding_to_multiple_block_size(db.block_size, data_length)
        padded == encoded \o Zeros(padding_size)
        off == db.used_blocks * db.block_size
    IN IF off + data_length >= db.total_size
       THEN [err |-> "OutOfMemory", db |-> db]
       ELSE IF io # "ok"
       THEN [err |-> "Io", db |-> [db EXCEPT !.used_blocks = @ + blocks_number]]
       ELSE [err |-> "Ok",
             data_info |-> DataInfo(db.used_blocks, data_length),
             db |-> [db EXCEPT !.device = WriteAt(@, off, padded),
                               !.used_blocks = @ + blocks_number]]

\* DiskDatabase::write
db_write(db, value, io) ==
    LET encoded == encode_to_vec(value)
        data_length == Len(encoded)
        blocks_number == div_ceil(data_length, db.block_size)
        padding_size == padding_to_multiple_block_size(db.block_size, data_length)
        padded == encoded \o Zeros(padding_size)
        off == db.used_blocks * db.block_size
    IN IF off + data_length >= db.total_size
       THEN [err |-> "OutOfMemory", db |-> db]
       ELSE IF io = "seek"
       THEN [err |-> "Io", db |-> db]
       ELSE IF io = "short"
       THEN [err |-> "Io",
             db |-> [db EXCEPT !.device =
                        IF Len(padded) > db.block_size
                        THEN WriteAt(@, off, SubSeq(padded, 1, db.block_size))
                        ELSE @]]
       ELSE [err |-> "Ok",
             data_info |-> DataInfo(db.used_blocks, data_length),
             db |-> [db EXCEPT !.device = WriteAt(@, off, padded),
                               !.used_blocks = @ + blocks_number]]

\* DiskDatabase::read
db_read(db, data_info) ==
    LET padding_size ==
            padding_to_multiple_block_size(db.block_size, data_info.data_length)
        data == ReadAt(db.device, data_info.start_block * db.block_size,
                       data_info.data_length + padding_size)
    IN decode_from_slice(data)

\* DiskDatabase::try_insert without the contains_key test
disk_try_insert_always(db, key, value, io) ==
    LET w == db_write(db, value, io)
    IN IF w.err # "Ok" THEN w
       ELSE [err |-> "Ok",
             db |-> [w.db EXCEPT !.database_map =
                        [k \in DOMAIN @ \cup {key} |->
                            IF k = key THEN w.data_info ELSE @[k]]]]

\* DiskDatabase::try_insert
disk_try_insert(db, key, value, io) ==
    IF key \in DOMAIN db.database_map
    THEN [err |-> "Ok", db |-> db]
    ELSE LET w == db_write(db, value, io)
         IN IF w.err # "Ok" THEN w
            ELSE [err |-> "Ok",
                  db |-> [w.db EXCEPT !.database_map = @ @@ (key :> w.data_info)]]

\* DiskDatabase::insert
disk_insert(db, key, value, io) ==
    LET w == db_write(db, value, io)
    IN IF w.err # "Ok" THEN w
       ELSE [err |-> "Ok",
             db |-> [w.db EXCEPT !.database_map =
                        [k \in DOMAIN @ \cup {key} |->
                            IF k = key THEN w.data_info ELSE @[k]]]]

\* DiskDatabase::get
disk_get(db, key) ==
    IF key \in DOMAIN db.database_map
    THEN db_read(db, db.database_map[key])
    ELSE [err |-> "NotFound"]

\* DiskDatabase::contains
disk_contains(db, key) == key \in DOMAIN db.database_map

\* DiskDatabase::clear that empties the map only
disk_clear_map_only(db) == [db EXCEPT !.database_map = <<>>]

\* DiskDatabase::clear
disk_clear(db) == [db EXCEPT !.database_map = <<>>, !.used_blocks = 0]

(***************************************************************************)
(* Key-value stores: the calls.                                            *)
(***************************************************************************)
Disk == DiskState(database_map, used_blocks, device, total_size, block_size)
DiskNext == DiskState(database_map', used_blocks', device', total_size', block_size')

SetDisk(db) ==
    /\ database_map' = db.database_map
    /\ used_blocks' = db.used_blocks
    /\ device' = db.device
    /\ total_size' = db.total_size
    /\ block_size' = db.block_size

\* what a try_insert call met: no such key, the key with the same value, or
\* the key with another value
Dup(present, same) == IF ~present THEN "new" ELSE IF same THEN "same" ELSE "differs"

\* A run has one database: the DiskDatabase when one was initialised on a
\* backing file, the HashMap otherwise.
UsesDisk == total_size > 0
UsesHashMap == ~UsesDisk

MemTryInsert(key, value) ==
    /\ UsesHashMap
    /\ mem' = hm_try_insert(mem, key, value)
    /\ ret' = [op |-> "try_insert", store |-> "mem", key |-> key, err |-> "Ok",
               dup |-> Dup(key \in DOMAIN mem, key \in DOMAIN mem /\ mem[key] = value)]
    /\ UNCHANGED <<flVars, fsVars, diskVars>>

MemInsert(key, value) ==
    /\ UsesHashMap
    /\ mem' = hm_insert(mem, key, value)
    /\ ret' = [op |-> "insert", store |-> "mem", key |-> key, err |-> "Ok"]
    /\ UNCHANGED <<flVars, fsVars, diskVars>>

MemGet(key) ==
    /\ UsesHashMap
    /\ ret' = [op |-> "get", store |-> "mem", key |-> key, res |-> hm_get(mem, key)]
    /\ UNCHANGED <<flVars, fsVars, mem, diskVars>>

\* IterableDatabase::clear for HashMap
MemClear ==
    /\ UsesHashMap
    /\ mem' = <<>>
    /\ ret' = [op |-> "clear", store |-> "mem", err |-> "Ok"]
    /\ UNCHANGED <<flVars, fsVars, diskVars>>

DiskTryInsert(key, value, io) ==
    LET r == disk_try_insert(Disk, key, value, io)
        present == key \in DOMAIN database_map
    IN /\ UsesDisk
       /\ SetDisk(r.db)
       /\ stored' = IF r.err = "Ok" /\ ~present THEN stored @@ (key :> value)
                    ELSE stored
       /\ ret' = [op |-> "try_insert", store |-> "disk", key |-> key, err |-> r.err,
                  data_length |-> Len(encode_to_vec(value)),
                  dup |-> Dup(present, key \in DOMAIN stored /\ stored[key] = value)]
       /\ UNCHANGED <<flVars, fsVars, mem>>

DiskInsert(key, value, io) ==
    LET r == disk_insert(Disk, key, value, io)
    IN /\ UsesDisk
       /\ SetDisk(r.db)
       /\ stored' = IF r.err = "Ok"
                    THEN [k \in DOMAIN stored \cup {key} |->
                             IF k = key THEN value ELSE stored[k]]
                    ELSE stored
       /\ ret' = [op |-> "insert", store |-> "disk", key |-> key, err |-> r.err,
                  data_length |-> Len(encode_to_vec(value))]
       /\ UNCHANGED <<flVars, fsVars, mem>>

DiskGet(key) ==
    /\ UsesDisk
    /\ ret' = [op |-> "get", store |-> "disk", key |-> key, res |-> disk_get(Disk, key)]
    /\ UNCHANGED <<flVars, fsVars, mem, diskVars>>

DiskClear ==
    /\ UsesDisk
    /\ SetDisk(disk_clear(Disk))
    /\ stored' = <<>>
    /\ ret' = [op |-> "clear", store |-> "disk", err |-> "Ok"]
    /\ UNCHANGED <<flVars, fsVars, mem>>

\* HashMap::new(), or DiskDatabase::init_on_regular_file(path, total_size):
\* set_len leaves a file of total_size zero bytes
InitDB ==
    /\ NewFileLayer
    /\ NoFileSystem
    /\ mem = <<>>
    /\ total_size \in TotalSizes \cup {0}
    /\ block_size = BLOCK_SIZE
    /\ device = Zeros(total_size)
    /\ database_map = <<>>
    /\ used_blocks = 0
    /\ stored = <<>>
    /\ ret = [op |-> "new"]

NextDB ==
    \/ \E key \in Keys, value \in Values : MemTryInsert(key, value)
    \/ \E key \in Keys, value \in Values : MemInsert(key, value)
    \/ \E key \in Keys : MemGet(key)
    \/ MemClear
    \/ \E key \in Keys, value \in Values, io \in IoOutcomes :
           DiskTryInsert(key, value, io)
    \/ \E key \in Keys, value \in Values, io \in IoOutcomes :
           DiskInsert(key, value, io)
    \/ \E key \in Keys : DiskGet(key)
    \/ DiskClear

SpecDB == InitDB /\ [][NextDB]_vars
(***************************************************************************)
(* Claims about the key-value stores (checked under SpecDB).               *)
(***************************************************************************)
\* C7: try_insert of a key that is present returns Ok and leaves get of that
\* key as it was, in the HashMap and in the DiskDatabase; in the DiskDatabase
\* it also leaves used_blocks and every other entry as they were.
IdempotentTryInsert ==
    [][ret'.op = "try_insert" =>
          LET key == ret'.key
          IN /\ (ret'.store = "mem" /\ hm_contains(mem, key)) =>
                    /\ ret'.err = "Ok"
                    /\ hm_get(mem', key) = hm_get(mem, key)
             /\ (ret'.store = "disk" /\ disk_contains(Disk, key)) =>
                    /\ ret'.err = "Ok"
                    /\ used_blocks' = used_blocks
                    /\ \A k \in Keys :
                          /\ disk_contains(DiskNext, k) = disk_contains(Disk, k)
                          /\ disk_get(DiskNext, k) = disk_get(Disk, k)]_vars

\* C7 witness: try_insert on the DiskDatabase has met its key with another
\* value stored under it
TryInsertMetOtherValue ==
    /\ ret.op = "try_insert"
    /\ ret.store = "disk"
    /\ ret.dup = "differs"
    /\ ret.err = "Ok"

\* C9: get(k) on the DiskDatabase returns the value of the last successful
\* insert(k, v), or of the try_insert(k, v) that added k, whatever has been
\* inserted since, until clear.
DiskRoundTrip ==
    \A k \in DOMAIN stored :
        disk_get(Disk, k) = [err |-> "Ok", value |-> stored[k]]

\* C9 witness: get has returned the stored value of a key after a later insert
\* placed another key behind it
GetAfterLaterInsert ==
    /\ ret.op = "get"
    /\ ret.store = "disk"
    /\ ret.res.err = "Ok"
    /\ ret.res.value = stored[ret.key]
    /\ \E j \in DOMAIN database_map :
          database_map[j].start_block > database_map[ret.key].start_block

\* C10: used_blocks * block_size <= total_size in every state.
CapacityBound == used_blocks * block_size <= total_size

\* a call that stores under a key: insert, or try_insert of a key that is absent
StoresNewValue(r) ==
    /\ r.op \in {"insert", "try_insert"}
    /\ r.store = "disk"
    /\ (r.op = "try_insert" => ~disk_contains(Disk, r.key))

\* C11: an insert, or a try_insert of a new key, whose encoded length L' has
\* used_blocks * block_size + L' > total_size fails with OutOfMemory.
OutOfMemoryWhenFull ==
    [][(/\ StoresNewValue(ret')
        /\ used_blocks * block_size + ret'.data_length > total_size)
       => ret'.err = "OutOfMemory"]_vars

\* C11 witness: an insert behind stored data has failed with OutOfMemory
\* because its encoding would end beyond total_size
InsertBeyondEnd ==
    /\ ret.op = "insert"
    /\ ret.store = "disk"
    /\ ret.err = "OutOfMemory"
    /\ used_blocks > 0
    /\ used_blocks * block_size + ret.data_length > total_size

\* C12: an insert whose encoded length L' has
\* used_blocks * block_size + L' <= total_size, equality included, is not
\* rejected with OutOfMemory.
AcceptedWhenFits ==
    [][(/\ ret'.op = "insert"
        /\ ret'.store = "disk"
        /\ used_blocks * block_size + ret'.data_length <= total_size)
       => ret'.err # "OutOfMemory"]_vars

\* C13: a failed insert or try_insert on the DiskDatabase leaves used_blocks
\* and the keys of the map as they were, and get of every key returns what it
\* returned before.
FailedInsertLeavesState ==
    [][(/\ ret'.op \in {"insert", "try_insert"}
        /\ ret'.store = "disk"
        /\ ret'.err # "Ok")
       => /\ used_blocks' = used_blocks
          /\ DOMAIN database_map' = DOMAIN database_map
          /\ \A k \in Keys : disk_get(DiskNext, k) = disk_get(Disk, k)]_vars

\* C13 witness: an insert has failed with an I/O error after part of its data
\* was written behind the stored data
InsertFailedMidWrite ==
    /\ ret.op = "insert"
    /\ ret.store = "disk"
    /\ ret.err = "Io"
    /\ stored # <<>>
    /\ ret.data_length > block_size
    /\ Len(device) > used_blocks * block_size
    /\ device[used_blocks * block_size + 1] # 0

\* C14: clear on the DiskDatabase leaves no key (get returns NotFound and
\* contains is false for every key) and used_blocks = 0, and the insert that
\* follows it is placed at start_block 0.
ClearEmpties ==
    [][/\ (ret'.op = "clear" /\ ret'.store = "disk") =>
              /\ used_blocks' = 0
              /\ \A k \in Keys :
                    /\ disk_get(DiskNext, k) = [err |-> "NotFound"]
                    /\ ~disk_contains(DiskNext, k)
       /\ (/\ ret.op = "clear"
           /\ ret.store = "disk"
           /\ StoresNewValue(ret')
           /\ ret'.err = "Ok") =>
              database_map'[ret'.key].start_block = 0]_vars

\* C14 witness: clear has emptied a database whose backing file holds data
ClearedAfterInserts ==
    /\ ret.op = "clear"
    /\ ret.store = "disk"
    /\ used_blocks = 0
    /\ database_map = <<>>
    /\ \E i \in 1..Len(device) : device[i] # 0

\* the blocks [start_block, start_block + ceil(data_length / block_size)) of an entry
BlocksOf(db, key) ==
    LET info == db.database_map[key]
    IN info.start_block ..
           (info.start_block + div_ceil(info.data_length, db.block_size) - 1)

\* the entries of the map occupy disjoint blocks below used_blocks
DisjointBelowUsed(db) ==
    /\ \A k \in DOMAIN db.database_map :
          \A b \in BlocksOf(db, k) : b < db.used_blocks
    /\ \A k, j \in DOMAIN db.database_map :
          k # j => BlocksOf(db, k) \cap BlocksOf(db, j) = {}

\* C25: a successful write records start_block = used_blocks as it was before
\* the write and advances used_blocks by ceil(L' / block_size); in every state
\* the block ranges of the entries are pairwise disjoint and end at or below
\* used_blocks.
SequentialAllocation ==
    [][/\ (StoresNewValue(ret') /\ ret'.err = "Ok") =>
              /\ database_map'[ret'.key] = DataInfo(used_blocks, ret'.data_length)
              /\ used_blocks' =
                     used_blocks + div_ceil(ret'.data_length, block_size)
       /\ DisjointBelowUsed(DiskNext)]_vars

\* C25 witness: an insert has replaced the entry of a key, whose old blocks
\* are left unused below used_blocks, while another key is stored
InsertOverOldEntry ==
    /\ ret.op = "insert"
    /\ ret.store = "disk"
    /\ ret.err = "Ok"
    /\ DOMAIN database_map = Keys
    /\ \E b \in 0..(used_blocks - 1) :
          \A k \in Keys : b \notin BlocksOf(Disk, k)

(***************************************************************************)
(* Bulk helpers of the Database trait, on the HashMap.                     *)
(***************************************************************************)
\* insert_multi that returns after its first pair
hm_insert_multi_first_only(m, pairs) ==
    IF pairs = <<>> THEN m ELSE hm_try_insert(m, pairs[1][1], pairs[1][2])

RECURSIVE hm_insert_multi(_, _)
\* Database::insert_multi: try_insert of each pair in order (try_insert on the
\* HashMap never fails)
hm_insert_multi(m, pairs) ==
    IF pairs = <<>> THEN m
    ELSE hm_insert_multi(hm_try_insert(m, Head(pairs)[1], Head(pairs)[2]), Tail(pairs))

RECURSIVE hm_get_multi_skipping(_, _)
\* get_multi that leaves out the keys that are absent
hm_get_multi_skipping(m, keys) ==
    IF keys = <<>> THEN [err |-> "Ok", values |-> <<>>]
    ELSE LET g == hm_get(m, Head(keys))
             rest == hm_get_multi_skipping(m, Tail(keys))
         IN IF g.err # "Ok" THEN rest
            ELSE [err |-> "Ok", values |-> <<g.value>> \o rest.values]

RECURSIVE hm_get_multi(_, _)
\* Database::get_multi: keys.iter().map(|key| self.get(key)).collect(), which
\* ends at the first error
hm_get_multi(m, keys) ==
    IF keys = <<>> THEN [err |-> "Ok", values |-> <<>>]
    ELSE LET g == hm_get(m, Head(keys))
         IN IF g.err # "Ok" THEN [err |-> g.err]
            ELSE LET rest == hm_get_multi(m, Tail(keys))
                 IN IF rest.err # "Ok" THEN rest
                    ELSE [err |-> "Ok", values |-> <<g.value>> \o rest.values]

(***************************************************************************)
(* Bulk helpers of the Database trait, on the DiskDatabase.                *)
(***************************************************************************)
RECURSIVE disk_insert_multi_to_the_end(_, _, _)
\* insert_multi that goes on after a failed pair and returns the first error
\* at the end
disk_insert_multi_to_the_end(db, pairs, ios) ==
    IF pairs = <<>> THEN [err |-> "Ok", db |-> db]
    ELSE LET r == disk_try_insert(db, Head(pairs)[1], Head(pairs)[2], Head(ios))
             rest == disk_insert_multi_to_the_end(r.db, Tail(pairs), Tail(ios))
         IN IF r.err # "Ok" THEN [err |-> r.err, db |-> rest.db] ELSE rest

RECURSIVE disk_insert_multi(_, _, _)
\* Database::insert_multi: self.try_insert(key, value)? for each pair in order;
\* ios[i] is how the device calls of pair i end
disk_insert_multi(db, pairs, ios) ==
    IF pairs = <<>> THEN [err |-> "Ok", db |-> db]
    ELSE LET r == disk_try_insert(db, Head(pairs)[1], Head(pairs)[2], Head(ios))
         IN IF r.err # "Ok" THEN [err |-> r.err, db |-> r.db]
            ELSE disk_insert_multi(r.db, Tail(pairs), Tail(ios))

RECURSIVE disk_get_multi(_, _)
\* Database::get_multi: keys.iter().map(|key| self.get(key)).collect(), which
\* ends at the first error
disk_get_multi(db, keys) ==
    IF keys = <<>> THEN [err |-> "Ok", values |-> <<>>]
    ELSE LET g == disk_get(db, Head(keys))
         IN IF g.err # "Ok" THEN [err |-> g.err]
            ELSE LET rest == disk_get_multi(db, Tail(keys))
                 IN IF rest.err # "Ok" THEN rest
                    ELSE [err |-> "Ok", values |-> <<g.value>> \o rest.values]

(***************************************************************************)
(* Bulk helpers: the calls.                                                *)
(***************************************************************************)
MaxPairs == 2       \* pairs given to insert_multi, keys given to get_multi

\* the pairs of a batch: a short and a long payload for each key
BulkPairs == Keys \X {Fill(1, SmallLen), Fill(2, BigLen)}

PairBatches == SeqsUpTo(BulkPairs, MaxPairs)

KeyLists == SeqsUpTo(Keys, MaxPairs)

\* how the device calls of the pairs of a batch end: all succeed, or those of
\* one pair fail (the pairs behind it are not reached)
IoPlans(n) ==
    {[i \in 1..n |-> "ok"]} \cup
    {[i \in 1..n |-> IF i = p THEN io ELSE "ok"] :
        p \in 1..n, io \in IoOutcomes \ {"ok"}}

\* what get returns for each key of a store: key -> value
MemContent(m) == m
DiskContent(db) ==
    [k \in DOMAIN db.database_map |->
        LET g == disk_get(db, k)
        IN IF g.err = "Ok" THEN g.value ELSE <<"error", g.err>>]

MemInsertMulti(pairs) ==
    /\ UsesHashMap
    /\ mem' = hm_insert_multi(mem, pairs)
    /\ ret' = [op |-> "insert_multi", store |-> "mem", pairs |-> pairs, err |-> "Ok"]
    /\ UNCHANGED <<flVars, fsVars, diskVars>>

MemGetMulti(keys) ==
    /\ UsesHashMap
    /\ ret' = [op |-> "get_multi", store |-> "mem", keys |-> keys,
               res |-> hm_get_multi(mem, keys)]
    /\ UNCHANGED <<flVars, fsVars, mem, diskVars>>

DiskInsertMulti(pairs, ios) ==
    LET r == disk_insert_multi(Disk, pairs, ios)
    IN /\ UsesDisk
       /\ SetDisk(r.db)
       /\ stored' = DiskContent(r.db)
       /\ ret' = [op |-> "insert_multi", store |-> "disk", pairs |-> pairs,
                  err |-> r.err]
       /\ UNCHANGED <<flVars, fsVars, mem>>

DiskGetMulti(keys) ==
    /\ UsesDisk
    /\ ret' = [op |-> "get_multi", store |-> "disk", keys |-> keys,
               res |-> disk_get_multi(Disk, keys)]
    /\ UNCHANGED <<flVars, fsVars, mem, diskVars>>

NextBulk ==
    \/ \E pairs \in PairBatches : MemInsertMulti(pairs)
    \/ \E keys \in KeyLists : MemGetMulti(keys)
    \/ \E pairs \in PairBatches : \E ios \in IoPlans(Len(pairs)) :
           DiskInsertMulti(pairs, ios)
    \/ \E keys \in KeyLists : DiskGetMulti(keys)

\* the bulk calls run on a HashMap or on a DiskDatabase whose file has room
\* for the short payloads only
InitBulk == InitDB /\ total_size \in {0, 3 + BigLen}

SpecBulk == InitBulk /\ [][NextBulk]_vars

\* C21: get_multi over keys that are all present returns one value per key in
\* the order of the keys, a repeated key giving its value again; if some key
\* is absent the call returns NotFound and no values at all; the store is the
\* same after the call in both cases.
GetMultiContract ==
    [][ret'.op = "get_multi" =>
         LET keys == ret'.keys
             content == IF ret'.store = "mem" THEN MemContent(mem)
                                               ELSE DiskContent(Disk)
         IN /\ (\A i \in 1..Len(keys) : keys[i] \in DOMAIN content) =>
                  ret'.res = [err |-> "Ok",
                              values |-> [i \in 1..Len(keys) |-> content[keys[i]]]]
            /\ (\E i \in 1..Len(keys) : keys[i] \notin DOMAIN content) =>
                  ret'.res = [err |-> "NotFound"]
            /\ mem' = mem
            /\ DiskNext = Disk]_vars

\* a get_multi whose first key is stored and whose second key is absent
GetMultiAbortedAfterHit ==
    /\ ret.op = "get_multi"
    /\ Len(ret.keys) = 2
    /\ ret.res.err = "NotFound"
    /\ ret.keys[1] \in (IF ret.store = "mem" THEN DOMAIN mem ELSE DOMAIN database_map)

\* the store after the first j pairs were applied with try_insert: a key of
\* the store keeps its value, a new key gets the value of its first pair
AppliedTo(content, pairs, j) ==
    LET new == {pairs[i][1] : i \in 1..j} \ DOMAIN content
        First(k) == CHOOSE i \in 1..j :
                        /\ pairs[i][1] = k
                        /\ \A h \in 1..(i - 1) : pairs[h][1] # k
    IN [k \in DOMAIN content \cup new |->
           IF k \in DOMAIN content THEN content[k] ELSE pairs[First(k)][2]]

\* C22: insert_multi applies the pairs in order with try_insert semantics, so
\* a key that is present, or that came earlier in the batch, keeps its first
\* payload; when a pair fails the call returns that error, the pairs before
\* it are stored and the pairs from it on are not.
InsertMultiContract ==
    [][ret'.op = "insert_multi" =>
         LET pairs == ret'.pairs
             before == IF ret'.store = "mem" THEN MemContent(mem)
                                              ELSE DiskContent(Disk)
             after == IF ret'.store = "mem" THEN MemContent(mem')
                                             ELSE DiskContent(DiskNext)
         IN IF ret'.err = "Ok"
            THEN after = AppliedTo(before, pairs, Len(pairs))
            ELSE \E j \in 1..Len(pairs) :
                    /\ pairs[j][1] \notin DOMAIN AppliedTo(before, pairs, j - 1)
                    /\ after = AppliedTo(before, pairs, j - 1)]_vars

\* an insert_multi of two keys that stored the first pair and failed on the
\* second
InsertMultiStoppedAtSecond ==
    /\ ret.op = "insert_multi"
    /\ ret.store = "disk"
    /\ ret.err # "Ok"
    /\ Len(ret.pairs) = 2
    /\ ret.pairs[1][1] # ret.pairs[2][1]
    /\ used_blocks = 1
    /\ ret.pairs[1][1] \in DOMAIN database_map
    /\ DiskContent(Disk)[ret.pairs[1][1]] = ret.pairs[1][2]
    /\ ret.pairs[2][1] \notin DOMAIN database_map

(***************************************************************************)
(* Chunker and hasher.                                                     *)
(***************************************************************************)
ChunkSize == 2      \* FSChunker::new(ChunkSize)
MaxSlice == 3       \* bytes given to one write_to_file call
MaxFsSpans == 2     \* spans appended over all files of the file system

Bytes == {1, 2}

\* the byte slices given to write_to_file: a first byte, then 2, 1, 2, ..
Slices == {[i \in 1..n |-> IF i = 1 THEN b ELSE IF i % 2 = 0 THEN 2 ELSE 1] :
              b \in Bytes, n \in 1..MaxSlice}

Chunk(offset, length) == [offset |-> offset, length |-> length]

Min(a, b) == IF a < b THEN a ELSE b

\* the chunk of one iteration, with the length not cut at the end of the data
next_chunk_uncut(n, chunk_size, offset) == Chunk(offset, chunk_size)

\* Chunk::new(offset, min(self.chunk_size, data.len() - offset))
next_chunk(n, chunk_size, offset) == Chunk(offset, Min(chunk_size, n - offset))

RECURSIVE chunk_loop(_, _, _, _)
\* the while loop of FSChunker::chunk_data over a buffer of n bytes
chunk_loop(n, chunk_size, offset, chunks) ==
    IF offset < n
    THEN chunk_loop(n, chunk_size, offset + chunk_size,
                    Append(chunks, next_chunk(n, chunk_size, offset)))
    ELSE chunks

\* FSChunker::chunk_data
chunk_data(data, chunk_size) == chunk_loop(Len(data), chunk_size, 0, <<>>)

\* data[chunk.range()]
ChunkBytes(data, chunk) == SubSeq(data, chunk.offset + 1, chunk.offset + chunk.length)

\* Hasher::hash: deterministic, and distinct for distinct data
hash(data) == <<"hash", data>>

(***************************************************************************)
(* FSChunker::chunk_data, one iteration of its loop per step.              *)
(***************************************************************************)
MaxData == 4        \* bytes of the buffer given to chunk_data
MaxChunkSize == 3   \* chunk_size given to FSChunker::new

RECURSIVE BuffersOf(_)
\* the byte sequences of length n
BuffersOf(n) ==
    IF n = 0 THEN {<<>>}
    ELSE {Append(d, b) : d \in BuffersOf(n - 1), b \in Bytes}

Buffers == UNION {BuffersOf(n) : n \in 0..MaxData}

\* FSChunker::new takes every usize, 0 included
ChunkSizes == 0..MaxChunkSize

\* the chunks recorded: a loop that pushes without end is followed this far
ChunksRecorded == MaxData + 1

\* let mut offset = 0; let mut chunks = empty;
InitChunker ==
    /\ NewFileLayer
    /\ NoStores
    /\ NoFileSystem
    /\ \E data \in Buffers, chunk_size \in ChunkSizes :
          ret = [op |-> "chunk_data", data |-> data, chunk_size |-> chunk_size,
                 offset |-> 0, chunks |-> <<>>, done |-> FALSE]

\* while offset < data.len() { chunks.push(..); offset += self.chunk_size; }
LoopBody ==
    /\ ~ret.done
    /\ ret.offset < Len(ret.data)
    /\ Len(ret.chunks) < ChunksRecorded
    /\ ret' = [ret EXCEPT
                  !.chunks = Append(@, next_chunk(Len(ret.data), ret.chunk_size,
                                                  ret.offset)),
                  !.offset = @ + ret.chunk_size]
    /\ UNCHANGED <<flVars, dbVars, fsVars>>

\* the loop condition fails: chunk_data returns chunks
LoopExit ==
    /\ ~ret.done
    /\ ~(ret.offset < Len(ret.data))
    /\ ret' = [ret EXCEPT !.done = TRUE]
    /\ UNCHANGED <<flVars, dbVars, fsVars>>

NextChunker == LoopBody \/ LoopExit

SpecChunker == InitChunker /\ [][NextChunker]_vars

\* C23: every chunk chunk_data emits has length exactly chunk_size: trailing
\* bytes that do not fill a chunk are not emitted as a chunk.
NoShortChunk ==
    \A i \in 1..Len(ret.chunks) : ret.chunks[i].length = ret.chunk_size

\* C24: for chunk_size >= 1 every chunk has length > 0 and ends within the
\* data, the first chunk starts at offset 0 and each next one where the one
\* before it ends.
ChunksTile ==
    ret.chunk_size >= 1 =>
        \A i \in 1..Len(ret.chunks) :
            LET chunk == ret.chunks[i]
            IN /\ chunk.length > 0
               /\ chunk.offset + chunk.length <= Len(ret.data)
               /\ chunk.offset =
                      IF i = 1 THEN 0
                      ELSE ret.chunks[i - 1].offset + ret.chunks[i - 1].length

\* C24 witness: chunk_data has returned a full chunk and a shorter last one
FullAndShortChunk ==
    /\ ret.done
    /\ Len(ret.chunks) = 2
    /\ ret.chunks[1].length = ret.chunk_size
    /\ ret.chunks[2].length < ret.chunk_size

\* C27: chunk_data terminates on every non-empty buffer: each iteration of
\* its loop moves offset towards data.len(), so that at most data.len()
\* iterations run.
ChunkingTerminates ==
    [][(Len(ret.data) > 0 /\ ret'.chunks # ret.chunks)
           => ret'.offset > ret.offset]_vars

(***************************************************************************)
(* File system facade.                                                     *)
(***************************************************************************)
RECURSIVE Concat(_)
Concat(ss) == IF ss = <<>> THEN <<>> ELSE Head(ss) \o Concat(Tail(ss))

\* the (hash, payload) pairs of the chunks of a buffer
Pairs(buf, chunks) ==
    [i \in 1..Len(chunks) |->
        <<hash(ChunkBytes(buf, chunks[i])), ChunkBytes(buf, chunks[i])>>]

\* the end of the last chunk: the bytes behind it are the tail
Covered(chunks) ==
    IF chunks = <<>> THEN 0
    ELSE chunks[Len(chunks)].offset + chunks[Len(chunks)].length

CreateFile(name) ==
    LET r == create(files, name)
    IN /\ files' = r.files
       /\ IF r.err = "Ok"
          THEN /\ HandleIds \ DOMAIN handles # {}
               /\ lens' = lens @@ (name :> <<>>)
               /\ written' = written @@ (name :> <<>>)
               /\ handles' = handles @@ (FreeSlot :> r.handle)
               /\ hist' = hist @@ (FreeSlot :> NewHist)
               /\ tails' = tails @@ (FreeSlot :> <<>>)
          ELSE UNCHANGED <<lens, written, handles, hist, tails>>
       /\ ret' = [op |-> "create_file", name |-> name, err |-> r.err]
       /\ UNCHANGED dbVars

OpenFile(name) ==
    LET r == open(files, name)
    IN /\ IF r # <<>>
          THEN /\ HandleIds \ DOMAIN handles # {}
               /\ handles' = handles @@ (FreeSlot :> r[1])
               /\ hist' = hist @@ (FreeSlot :> NewHist)
               /\ tails' = tails @@ (FreeSlot :> <<>>)
          ELSE UNCHANGED <<handles, hist, tails>>
       /\ ret' = [op |-> "open_file", name |-> name,
                  err |-> IF r # <<>> THEN "Ok" ELSE "NotFound"]
       /\ UNCHANGED <<files, lens, dbVars, written>>

WriteToFile(h, bytes) ==
    /\ h \in DOMAIN handles
    /\ LET name == handles[h].file_name
           buf == tails[h] \o bytes
           chunks == chunk_data(buf, ChunkSize)
           pairs == Pairs(buf, chunks)
           spans == [i \in 1..Len(chunks) |-> Span(pairs[i][1], chunks[i].length)]
           w == write(files[name], handles[h].offset, spans)
           tail == SubSeq(buf, Covered(chunks) + 1, Len(buf))
       IN /\ TotalSpans + Len(chunks) <= MaxFsSpans
          /\ mem' = hm_insert_multi(mem, pairs)
          /\ files' = [files EXCEPT ![name] = w.spans]
          /\ lens' = [lens EXCEPT ![name] =
                         @ \o [i \in 1..Len(spans) |-> spans[i].length]]
          /\ handles' = set_offset(handles, h, w.offset)
          /\ hist' = [hist EXCEPT ![h].wrote = TRUE]
          /\ tails' = [tails EXCEPT ![h] = tail]
          /\ written' = [written EXCEPT ![name] = @ \o bytes]
          /\ ret' = [op |-> "write_to_file", h |-> h, name |-> name]
    /\ UNCHANGED diskVars

\* close_file: a tail that is not empty is stored as one last chunk; the handle
\* is gone afterwards
CloseFile(h) ==
    /\ h \in DOMAIN handles
    /\ LET name == handles[h].file_name
           tail == tails[h]
           pairs == IF tail = <<>> THEN <<>> ELSE <<<<hash(tail), tail>>>>
           spans == [i \in 1..Len(pairs) |-> Span(pairs[i][1], Len(tail))]
           w == write(files[name], handles[h].offset, spans)
       IN /\ mem' = hm_insert_multi(mem, pairs)
          /\ files' = [files EXCEPT ![name] = w.spans]
          /\ lens' = [lens EXCEPT ![name] =
                         @ \o [i \in 1..Len(spans) |-> spans[i].length]]
    /\ handles' = [g \in DOMAIN handles \ {h} |-> handles[g]]
    /\ hist' = [g \in DOMAIN hist \ {h} |-> hist[g]]
    /\ tails' = [g \in DOMAIN tails \ {h} |-> tails[g]]
    /\ ret' = [op |-> "close_file", h |-> h]
    /\ UNCHANGED <<diskVars, written>>

\* read_file_complete: read_complete, get_multi, concatenate
read_file_complete(fl, m, handle) ==
    LET hashes == read_complete(fl, handle)
        got == hm_get_multi(m, hashes)
    IN IF got.err # "Ok" THEN [err |-> got.err]
       ELSE [err |-> "Ok", data |-> Concat(got.values)]

ReadFileComplete(h) ==
    /\ h \in DOMAIN handles
    /\ ret' = [op |-> "read_file_complete", h |-> h,
               name |-> handles[h].file_name,
               res |-> read_file_complete(files, mem, handles[h])]
    /\ UNCHANGED <<flVars, dbVars, fsVars>>

\* FileSystem::new(FSChunker::new(ChunkSize), hasher, HashMap::default())
InitFS ==
    /\ NewFileLayer
    /\ NoStores
    /\ NoFileSystem
    /\ ret = [op |-> "new"]

NextFS ==
    \/ \E name \in Names : CreateFile(name)
    \/ \E name \in Names : OpenFile(name)
    \/ \E h \in HandleIds, bytes \in Slices : WriteToFile(h, bytes)
    \/ \E h \in HandleIds : CloseFile(h)
    \/ \E h \in HandleIds : ReadFileComplete(h)

SpecFS == InitFS /\ [][NextFS]_vars

(***************************************************************************)
(* Claims about the file system (checked under SpecFS).                    *)
(***************************************************************************)
\* the hashes of the chunks written so far: every chunk written is a span of a file
HashesIn(fl) == UNION {{fl[n][i].hash : i \in 1..Len(fl[n])} : n \in DOMAIN fl}

\* every handle through which the file was written has been closed
WritersClosed(name) ==
    \A h \in DOMAIN handles : handles[h].file_name = name => ~hist[h].wrote

\* C1: read_file_complete on a handle opened after close_file returns exactly
\* the bytes given to write_to_file for that file, in the order of the calls.
RoundTrip ==
    (ret.op = "read_file_complete" /\ WritersClosed(ret.name))
        => ret.res = [err |-> "Ok", data |-> written[ret.name]]

\* C1 witness: such a read has returned the bytes of a write_to_file call that
\* was split into a full and a short chunk
RoundTripOfSplitWrite ==
    /\ ret.op = "read_file_complete"
    /\ WritersClosed(ret.name)
    /\ Len(files[ret.name]) = 2
    /\ Len(written[ret.name]) = ChunkSize + 1
    /\ ret.res.err = "Ok"
    /\ ret.res.data = written[ret.name]

\* C6: a write_to_file call whose chunks have all been written before, to the
\* same or to another file, adds no entry to the database: the database holds
\* them already and is the same after the call; and the database never has
\* more entries than there are distinct chunk hashes written so far.
Deduplication ==
    [][/\ Cardinality(DOMAIN mem') <= Cardinality(HashesIn(files'))
       /\ ret'.op = "write_to_file" =>
             LET name == ret'.name
                 new == {files'[name][i].hash :
                            i \in (Len(files[name]) + 1)..Len(files'[name])}
             IN new \subseteq HashesIn(files) =>
                    /\ mem' = mem
                    /\ new \subseteq DOMAIN mem']_vars

\* C6 witness: the same payload has been written to two files, and the
\* database has fewer entries than the files have spans
SamePayloadInTwoFiles ==
    /\ ret.op = "write_to_file"
    /\ \E n \in DOMAIN files \ {ret.name} :
          /\ written[n] # <<>>
          /\ written[n] = written[ret.name]
          /\ files[n] = files[ret.name]
    /\ Cardinality(DOMAIN mem) < TotalSpans

====
